---- MODULE Spec2Model ----
(***************************************************************************)
(* django-usergroups: the group / membership / admin / application /       *)
(* invitation state machine of usergroups/options.py (the configuration    *)
(* object BaseUserGroupConfiguration) and usergroups/views.py (the         *)
(* standalone view functions).                                             *)
(*                                                                         *)
(* The database is the state.  Every view is one action: it reads the      *)
(* request (user, ids, method), looks rows up, mutates relations and       *)
(* answers with a response.  A handler is written as an operator from the  *)
(* current database to a result [st |-> new database, out |-> response];   *)
(* Handle(r) is the step that commits the result.  Writes are committed    *)
(* statement by statement (no transaction wraps a view), so a view that    *)
(* raises after its writes leaves the writes in place and answers "error". *)
(***************************************************************************)
EXTENDS Integers, FiniteSets, Sequences, TLC

\* ---------------------------------------------------------------- bounds
NumUsers == 2      \* rows of auth.User
MaxApps == 1       \* primary keys UserGroupApplication may hand out
MaxInvs == 2       \* primary keys EmailInvitation may hand out
MaxClock == 1      \* readings of datetime.datetime.now()
NumInstances == 2  \* GroupOptions() objects the process constructs

\* ---------------------------------------------------------------- domains
Users == 1..NumUsers
NoUser == 0                         \* a primary key no User row has
UserIds == Users \cup {NoUser}      \* what a URL may carry as user_id
GroupIds == {1, 2}                  \* primary keys the group model hands out
NoGroup == 0                        \* no group (a view that names none)
Keys == {"k1", "k2"}                \* EmailInvitation.secret_key values
Names == {"a", "b"}                 \* valid values of the group form
Invalid == "invalid"                \* form data that fails is_valid()
FormData == Names \cup {Invalid}
NewGroupData == {"a", Invalid}      \* what the create form is posted with
AppIds == 0..MaxApps                \* 0: a primary key no application has
Methods == {"GET", "POST", "AJAX"}  \* AJAX: a POST on which is_ajax() holds
Procs == {1, 2}                     \* requests that may be in progress together
Instances == 1..NumInstances        \* 1: the module-level `options`
DictIds == 0..NumInstances          \* 0: GroupOptions.__shared_state
RegKeys == {"groups", "teams"}      \* keys a host registers models under
GroupModels == {"UserGroup", "Team"}        \* subclasses of BaseUserGroup
Models == GroupModels \cup {"Profile"}      \* Profile: not a BaseUserGroup

VARIABLES
  groups,        \* primary keys of the stored group rows
  nextGroup,     \* next primary key of the group model
  creator,       \* group.creator
  name,          \* the form-editable fields of a group
  members,       \* group.members (many-to-many)
  admins,        \* group.admins (many-to-many)
  applications,  \* UserGroupApplication rows [id, user, group, created]
  nextApp,       \* next primary key of UserGroupApplication
  invitations,   \* EmailInvitation rows [id, key, group]
  nextInv,       \* next primary key of EmailInvitation
  clock,         \* datetime.datetime.now()
  notification,  \* the module-level `notification` (enabled or None)
  last,          \* the response in flight, with what the request looked up
  procs,         \* requests in progress statement by statement
  dicts,         \* attribute dictionaries: dicts[d].configurations
  self_dict,     \* instance.__dict__ of each GroupOptions object
  returned       \* what the last registry call returned or raised

db == <<groups, nextGroup, creator, name, members, admins,
        applications, nextApp, invitations, nextInv>>
vars == <<groups, nextGroup, creator, name, members, admins,
          applications, nextApp, invitations, nextInv, clock, notification, last,
          procs, dicts, self_dict, returned>>
\* What the views served as one step leave alone.
registry == <<dicts, self_dict, returned>>

Idle == [op |-> "idle", resp |-> "none", user |-> NoUser, group |-> NoGroup,
         sent |-> <<>>, found |-> 0,
         wasMember |-> FALSE, wasAdmin |-> FALSE, already |-> FALSE]

\* The database as one value.
Cur ==
  [groups |-> groups, nextGroup |-> nextGroup, creator |-> creator, name |-> name,
   members |-> members, admins |-> admins,
   applications |-> applications, nextApp |-> nextApp,
   invitations |-> invitations, nextInv |-> nextInv]

\* A response: the view, what it answered, the user and group the request was
\* about, the notifications it sent, the number of rows its lookup matched and
\* what the user was in the group before.
Out(op, resp, u, g) ==
  [op |-> op, resp |-> resp, user |-> u, group |-> g, sent |-> <<>>, found |-> 0,
   wasMember |-> (g \in groups /\ u \in members[g]),
   wasAdmin |-> (g \in groups /\ u \in admins[g]),
   already |-> FALSE]

Result(st, out) == [st |-> st, out |-> out]

\* A view that answers without writing.
Answer(op, resp, u, g) == Result(Cur, Out(op, resp, u, g))

IsPost(m) == m \in {"POST", "AJAX"}

\* get_object_or_404
GroupExists(gid) == gid \in groups
UserExists(uid) == uid \in Users
AppRows(appid) == {ap \in applications : ap.id = appid}
AppOf(appid) == CHOOSE ap \in applications : ap.id = appid

\* A process slot with no request in progress.
NoRequest ==
  [op |-> "none", pc |-> "done", impl |-> "none", user |-> NoUser, target |-> NoUser,
   group |-> NoGroup, seen |-> 0, resp |-> "none"]

\* A key of GroupOptions.configurations that raises KeyError.
Unregistered == [slug |-> "", model |-> ""]

\* No registry call made yet.
NoReturn ==
  [call |-> "none", via |-> 0, key |-> "", model |-> "", raised |-> "",
   value |-> Unregistered]

\* GroupOptions.__init__ with every instance keeping a dictionary of its own.
GroupOptions_init_own_dict(i) == i

\* GroupOptions.__init__: self.__dict__ = self.__shared_state; the dictionary
\* the new instance i reads its attributes from.
GroupOptions_init(i) == 0

Init ==
  /\ groups = {}
  /\ nextGroup = 1
  /\ creator = [g \in GroupIds |-> NoUser]
  /\ name = [g \in GroupIds |-> "a"]
  /\ members = [g \in GroupIds |-> {}]
  /\ admins = [g \in GroupIds |-> {}]
  /\ applications = {}
  /\ nextApp = 1
  /\ invitations = {}
  /\ nextInv = 1
  /\ clock = 0
  /\ notification \in BOOLEAN
  /\ last = Idle
  /\ procs = [p \in Procs |-> NoRequest]
  /\ dicts = [d \in DictIds |-> [k \in RegKeys |-> Unregistered]]
  /\ self_dict = [i \in {1} |-> GroupOptions_init(i)]
  /\ returned = NoReturn

\* ------------------------------------------------------- options.py helpers

\* has_permission asking for admin rights only.
has_permission_admins_only(user, g) == user \in admins[g]

has_permission(user, g) == user = creator[g] \/ user \in admins[g]

\* BaseUserGroup.remove_admin (models.py): takes the user out of admins only.
remove_admin(adm, g, u) == [adm EXCEPT ![g] = @ \ {u}]

\* BaseUserGroup.save (models.py) on a new row: the creator becomes an admin
\* and a member of the new group.
SaveNewGroup(st, a, d) ==
  LET g == st.nextGroup IN
  [st EXCEPT !.groups = @ \cup {g}, !.nextGroup = g + 1,
             !.creator = [@ EXCEPT ![g] = a], !.name = [@ EXCEPT ![g] = d],
             !.members = [@ EXCEPT ![g] = {a}], !.admins = [@ EXCEPT ![g] = {a}]]

\* group.delete(): the row and its many-to-many rows go.
DeleteGroupRow(st, g) ==
  [st EXCEPT !.groups = @ \ {g},
             !.creator = [@ EXCEPT ![g] = NoUser], !.name = [@ EXCEPT ![g] = "a"],
             !.members = [@ EXCEPT ![g] = {}], !.admins = [@ EXCEPT ![g] = {}]]

\* One notification.send(...) call: the recipients, the label, and what the
\* database held about the subject when it was sent.
Notice(to, label, isMember, rowExists) ==
  [to |-> to, label |-> label, isMember |-> isMember, rowExists |-> rowExists]

\* ------------------------------------------------------- options.py views

\* create_group: the form is valid only when it is bound (a POST) to valid data.
create_group(a, d, m) ==
  IF IsPost(m) /\ d # Invalid
  THEN Result(SaveNewGroup(Cur, a, d), Out("create_group", "redirect_detail", a, NoGroup))
  ELSE Answer("create_group", "form", a, NoGroup)

\* edit_group: with an unbound or invalid form, `extra_context or None` is None
\* and None.update(...) raises.
edit_group(a, gid, d, m) ==
  IF ~GroupExists(gid) THEN Answer("edit_group", "not_found", a, gid)
  ELSE IF ~has_permission(a, gid) THEN Answer("edit_group", "bad_request", a, gid)
  ELSE IF IsPost(m) /\ d # Invalid
  THEN Result([Cur EXCEPT !.name = [@ EXCEPT ![gid] = d]],
              Out("edit_group", "redirect_detail", a, gid))
  ELSE Answer("edit_group", "error", a, gid)

\* delete_group without its has_permission test.
delete_group_ungated(a, gid, m) ==
  IF ~GroupExists(gid) THEN Answer("delete_group", "not_found", a, gid)
  ELSE IF m # "POST" /\ m # "AJAX" THEN Answer("delete_group", "confirmation", a, gid)
  ELSE Result(DeleteGroupRow(Cur, gid),
              Out("delete_group", "redirect_delete_done", a, gid))

\* delete_group without its request.method test.
delete_group_unconfirmed(a, gid, m) ==
  IF ~GroupExists(gid) THEN Answer("delete_group", "not_found", a, gid)
  ELSE IF ~has_permission(a, gid) THEN Answer("delete_group", "bad_request", a, gid)
  ELSE Result(DeleteGroupRow(Cur, gid),
              Out("delete_group", "redirect_delete_done", a, gid))

delete_group(a, gid, m) ==
  IF ~GroupExists(gid) THEN Answer("delete_group", "not_found", a, gid)
  ELSE IF ~has_permission(a, gid) THEN Answer("delete_group", "bad_request", a, gid)
  ELSE IF m # "POST" /\ m # "AJAX" THEN Answer("delete_group", "confirmation", a, gid)
  ELSE Result(DeleteGroupRow(Cur, gid),
              Out("delete_group", "redirect_delete_done", a, gid))

\* remove_member doing one removal per request: an admin loses the admin
\* rights, anyone else the membership.
remove_member_one_removal(a, gid, uid, m) ==
  IF ~UserExists(uid) \/ ~GroupExists(gid) THEN Answer("remove_member", "not_found", uid, gid)
  ELSE IF ~has_permission(a, gid) THEN Answer("remove_member", "bad_request", uid, gid)
  ELSE IF uid = a THEN Answer("remove_member", "redirect_leave", uid, gid)
  ELSE IF ~IsPost(m) THEN Answer("remove_member", "confirmation", uid, gid)
  ELSE Result(IF uid \in admins[gid]
              THEN [Cur EXCEPT !.admins = remove_admin(@, gid, uid)]
              ELSE [Cur EXCEPT !.members = [@ EXCEPT ![gid] = @ \ {uid}]],
              Out("remove_member", IF m = "AJAX" THEN "error" ELSE "redirect_detail",
                  uid, gid))

\* remove_member without its group.remove_admin(member).
remove_member_keeps_admin(a, gid, uid, m) ==
  IF ~UserExists(uid) \/ ~GroupExists(gid) THEN Answer("remove_member", "not_found", uid, gid)
  ELSE IF ~has_permission(a, gid) THEN Answer("remove_member", "bad_request", uid, gid)
  ELSE IF uid = a THEN Answer("remove_member", "redirect_leave", uid, gid)
  ELSE IF ~IsPost(m) THEN Answer("remove_member", "confirmation", uid, gid)
  ELSE Result([Cur EXCEPT !.members = [@ EXCEPT ![gid] = @ \ {uid}]],
              Out("remove_member", IF m = "AJAX" THEN "error" ELSE "redirect_detail",
                  uid, gid))

\* remove_member emptying group.members instead of removing the one member.
remove_member_clears_members(a, gid, uid, m) ==
  IF ~UserExists(uid) \/ ~GroupExists(gid) THEN Answer("remove_member", "not_found", uid, gid)
  ELSE IF ~has_permission(a, gid) THEN Answer("remove_member", "bad_request", uid, gid)
  ELSE IF uid = a THEN Answer("remove_member", "redirect_leave", uid, gid)
  ELSE IF ~IsPost(m) THEN Answer("remove_member", "confirmation", uid, gid)
  ELSE Result([Cur EXCEPT !.admins = remove_admin(@, gid, uid),
                          !.members = [@ EXCEPT ![gid] = {}]],
              Out("remove_member", IF m = "AJAX" THEN "error" ELSE "redirect_detail",
                  uid, gid))

\* remove_member without its `member == request.user` test (as
\* views.remove_member is written).
remove_member_removes_self(a, gid, uid, m) ==
  IF ~UserExists(uid) \/ ~GroupExists(gid) THEN Answer("remove_member", "not_found", uid, gid)
  ELSE IF ~has_permission(a, gid) THEN Answer("remove_member", "bad_request", uid, gid)
  ELSE IF ~IsPost(m) THEN Answer("remove_member", "confirmation", uid, gid)
  ELSE Result([Cur EXCEPT !.admins = remove_admin(@, gid, uid),
                          !.members = [@ EXCEPT ![gid] = @ \ {uid}]],
              Out("remove_member", IF m = "AJAX" THEN "error" ELSE "redirect_detail",
                  uid, gid))

\* remove_member: the AJAX branch reads the undefined names `user` and
\* `json_response`; it raises after both removals.
remove_member(a, gid, uid, m) ==
  IF ~UserExists(uid) \/ ~GroupExists(gid) THEN Answer("remove_member", "not_found", uid, gid)
  ELSE IF ~has_permission(a, gid) THEN Answer("remove_member", "bad_request", uid, gid)
  ELSE IF uid = a THEN Answer("remove_member", "redirect_leave", uid, gid)
  ELSE IF ~IsPost(m) THEN Answer("remove_member", "confirmation", uid, gid)
  ELSE Result([Cur EXCEPT !.admins = remove_admin(@, gid, uid),
                          !.members = [@ EXCEPT ![gid] = @ \ {uid}]],
              Out("remove_member", IF m = "AJAX" THEN "error" ELSE "redirect_detail",
                  uid, gid))

\* add_admin without its group.members.add(member).
add_admin_skips_members(a, gid, uid, m) ==
  IF ~GroupExists(gid) \/ ~UserExists(uid) THEN Answer("add_admin", "not_found", uid, gid)
  ELSE IF ~has_permission(a, gid) THEN Answer("add_admin", "bad_request", uid, gid)
  ELSE IF ~IsPost(m) THEN Answer("add_admin", "confirmation", uid, gid)
  ELSE Result([Cur EXCEPT !.admins = [@ EXCEPT ![gid] = @ \cup {uid}]],
              Out("add_admin", "redirect_detail", uid, gid))

add_admin(a, gid, uid, m) ==
  IF ~GroupExists(gid) \/ ~UserExists(uid) THEN Answer("add_admin", "not_found", uid, gid)
  ELSE IF ~has_permission(a, gid) THEN Answer("add_admin", "bad_request", uid, gid)
  ELSE IF ~IsPost(m) THEN Answer("add_admin", "confirmation", uid, gid)
  ELSE LET adm == [admins EXCEPT ![gid] = @ \cup {uid}]
           mem == IF uid \notin members[gid]
                  THEN [members EXCEPT ![gid] = @ \cup {uid}]
                  ELSE members
       IN Result([Cur EXCEPT !.admins = adm, !.members = mem],
                 Out("add_admin", "redirect_detail", uid, gid))

\* revoke_admin doing what remove_member does.
revoke_admin_removes_member(a, gid, uid, m) ==
  IF ~GroupExists(gid) \/ ~UserExists(uid) THEN Answer("revoke_admin", "not_found", uid, gid)
  ELSE IF ~has_permission(a, gid) THEN Answer("revoke_admin", "bad_request", uid, gid)
  ELSE IF ~IsPost(m) THEN Answer("revoke_admin", "confirmation", uid, gid)
  ELSE Result([Cur EXCEPT !.admins = remove_admin(@, gid, uid),
                          !.members = [@ EXCEPT ![gid] = @ \ {uid}]],
              Out("revoke_admin", IF m = "AJAX" THEN "error" ELSE "redirect_detail",
                  uid, gid))

\* revoke_admin: the AJAX branch dumps the undefined `json_response`.
revoke_admin(a, gid, uid, m) ==
  IF ~GroupExists(gid) \/ ~UserExists(uid) THEN Answer("revoke_admin", "not_found", uid, gid)
  ELSE IF ~has_permission(a, gid) THEN Answer("revoke_admin", "bad_request", uid, gid)
  ELSE IF ~IsPost(m) THEN Answer("revoke_admin", "confirmation", uid, gid)
  ELSE Result([Cur EXCEPT !.admins = remove_admin(@, gid, uid)],
              Out("revoke_admin", IF m = "AJAX" THEN "error" ELSE "redirect_detail",
                  uid, gid))

\* leave_group without its group.remove_admin(request.user).
leave_group_keeps_admin(a, gid, m) ==
  IF ~GroupExists(gid) THEN Answer("leave_group", "not_found", a, gid)
  ELSE IF ~IsPost(m) THEN Answer("leave_group", "confirmation", a, gid)
  ELSE IF Cardinality(admins[gid]) = 1 /\ a \in admins[gid]
  THEN Answer("leave_group", "redirect_delete", a, gid)
  ELSE Result([Cur EXCEPT !.members = [@ EXCEPT ![gid] = @ \ {a}]],
              Out("leave_group", IF m = "AJAX" THEN "error" ELSE "redirect_detail",
                  a, gid))

\* leave_group without its sole-admin test (as views.leave_group is written).
leave_group_always_leaves(a, gid, m) ==
  IF ~GroupExists(gid) THEN Answer("leave_group", "not_found", a, gid)
  ELSE IF ~IsPost(m) THEN Answer("leave_group", "confirmation", a, gid)
  ELSE Result([Cur EXCEPT !.admins = remove_admin(@, gid, a),
                          !.members = [@ EXCEPT ![gid] = @ \ {a}]],
              Out("leave_group", IF m = "AJAX" THEN "error" ELSE "redirect_detail",
                  a, gid))

leave_group(a, gid, m) ==
  IF ~GroupExists(gid) THEN Answer("leave_group", "not_found", a, gid)
  ELSE IF ~IsPost(m) THEN Answer("leave_group", "confirmation", a, gid)
  ELSE IF Cardinality(admins[gid]) = 1 /\ a \in admins[gid]
  THEN Answer("leave_group", "redirect_delete", a, gid)
  ELSE Result([Cur EXCEPT !.admins = remove_admin(@, gid, a),
                          !.members = [@ EXCEPT ![gid] = @ \ {a}]],
              Out("leave_group", IF m = "AJAX" THEN "error" ELSE "redirect_detail",
                  a, gid))

\* ------------------------------------- options.py invitations, applications

\* EmailInvitationForm.send_invitations (forms.py): one invitation row for the
\* group, carrying a generated secret key (keys are not unique in storage).
SendInvitation(st, gid, k) ==
  [st EXCEPT !.invitations = @ \cup {[id |-> st.nextInv, key |-> k, group |-> gid]},
             !.nextInv = @ + 1]

create_email_invitation(a, gid, valid, k, m) ==
  IF ~GroupExists(gid) THEN Answer("create_email_invitation", "not_found", a, gid)
  ELSE IF ~has_permission(a, gid)
  THEN Answer("create_email_invitation", "bad_request", a, gid)
  ELSE IF IsPost(m) /\ valid
  THEN Result(SendInvitation(Cur, gid, k),
              Out("create_email_invitation", "redirect_detail", a, gid))
  ELSE Answer("create_email_invitation", "form", a, gid)

\* validate_email_invitation returning the invalid view from its
\* MultipleObjectsReturned branch, after deleting the matches.
validate_email_invitation_denies_duplicates(a, gid, key) ==
  LET matching == {iv \in invitations : iv.key = key}
      n == Cardinality(matching)
  IN IF ~GroupExists(gid) THEN Answer("validate_email_invitation", "not_found", a, gid)
     ELSE IF n = 0
     THEN Result(Cur, [Out("validate_email_invitation", "invalid_invitation", a, gid)
                       EXCEPT !.found = 0])
     ELSE IF n > 1
     THEN Result([Cur EXCEPT !.invitations = @ \ matching],
                 [Out("validate_email_invitation", "invalid_invitation", a, gid)
                  EXCEPT !.found = n])
     ELSE Result([Cur EXCEPT !.invitations = @ \ matching,
                             !.members = [@ EXCEPT ![gid] = @ \cup {a}]],
                 [Out("validate_email_invitation", "redirect_joined", a, gid)
                  EXCEPT !.found = n])

\* validate_email_invitation without its invitation.delete().
validate_email_invitation_keeps_row(a, gid, key) ==
  LET matching == {iv \in invitations : iv.key = key}
      n == Cardinality(matching)
  IN IF ~GroupExists(gid) THEN Answer("validate_email_invitation", "not_found", a, gid)
     ELSE IF n = 0
     THEN Result(Cur, [Out("validate_email_invitation", "invalid_invitation", a, gid)
                       EXCEPT !.found = 0])
     ELSE Result([Cur EXCEPT !.invitations = IF n = 1 THEN @ ELSE @ \ matching,
                             !.members = [@ EXCEPT ![gid] = @ \cup {a}]],
                 [Out("validate_email_invitation", "redirect_joined", a, gid)
                  EXCEPT !.found = n])

\* validate_email_invitation: the lookup is by secret key alone; only
\* DoesNotExist returns early, both other branches fall through to members.add.
validate_email_invitation(a, gid, key) ==
  LET matching == {iv \in invitations : iv.key = key}
      n == Cardinality(matching)
  IN IF ~GroupExists(gid) THEN Answer("validate_email_invitation", "not_found", a, gid)
     ELSE IF n = 0
     THEN Result(Cur, [Out("validate_email_invitation", "invalid_invitation", a, gid)
                       EXCEPT !.found = 0])
     ELSE Result([Cur EXCEPT !.invitations = @ \ matching,
                             !.members = [@ EXCEPT ![gid] = @ \cup {a}]],
                 [Out("validate_email_invitation", "redirect_joined", a, gid)
                  EXCEPT !.found = n])

\* approve_application sending its notification before application.delete().
approve_application_notifies_first(a, gid, appid, m) ==
  IF ~GroupExists(gid) \/ AppRows(appid) = {}
  THEN Answer("approve_application", "not_found", NoUser, gid)
  ELSE
    LET application == AppOf(appid)
        applicant == application.user
        mem1 == [members EXCEPT ![gid] = @ \cup {applicant}]
        apps1 == applications \ {application}
        sent == IF notification
                THEN << Notice({applicant}, "usergroups_application_approved",
                               applicant \in mem1[gid], application \in applications) >>
                ELSE << >>
    IN IF ~has_permission(a, gid)
       THEN Result(Cur, [Out("approve_application", "bad_request", applicant, gid)
                         EXCEPT !.found = 1])
       ELSE IF ~IsPost(m)
       THEN Result(Cur, [Out("approve_application", "confirmation", applicant, gid)
                         EXCEPT !.found = 1])
       ELSE Result([Cur EXCEPT !.members = mem1, !.applications = apps1],
                   [Out("approve_application",
                        IF m = "AJAX" THEN "error" ELSE "redirect_detail", applicant, gid)
                    EXCEPT !.found = 1, !.sent = sent])

\* approve_application: the application is fetched by primary key alone.
approve_application(a, gid, appid, m) ==
  IF ~GroupExists(gid) \/ AppRows(appid) = {}
  THEN Answer("approve_application", "not_found", NoUser, gid)
  ELSE
    LET application == AppOf(appid)
        applicant == application.user
        mem1 == [members EXCEPT ![gid] = @ \cup {applicant}]
        apps1 == applications \ {application}
        sent == IF notification
                THEN << Notice({applicant}, "usergroups_application_approved",
                               applicant \in mem1[gid], application \in apps1) >>
                ELSE << >>
    IN IF ~has_permission(a, gid)
       THEN Result(Cur, [Out("approve_application", "bad_request", applicant, gid)
                         EXCEPT !.found = 1])
       ELSE IF ~IsPost(m)
       THEN Result(Cur, [Out("approve_application", "confirmation", applicant, gid)
                         EXCEPT !.found = 1])
       ELSE Result([Cur EXCEPT !.members = mem1, !.applications = apps1],
                   [Out("approve_application",
                        IF m = "AJAX" THEN "error" ELSE "redirect_detail", applicant, gid)
                    EXCEPT !.found = 1, !.sent = sent])

\* ignore_application with approve_application's group.members.add.
ignore_application_adds_member(a, gid, appid, m) ==
  IF ~GroupExists(gid) \/ AppRows(appid) = {}
  THEN Answer("ignore_application", "not_found", NoUser, gid)
  ELSE
    LET application == AppOf(appid)
        applicant == application.user
    IN IF ~has_permission(a, gid)
       THEN Result(Cur, [Out("ignore_application", "bad_request", applicant, gid)
                         EXCEPT !.found = 1])
       ELSE IF ~IsPost(m)
       THEN Result(Cur, [Out("ignore_application", "confirmation", applicant, gid)
                         EXCEPT !.found = 1])
       ELSE Result([Cur EXCEPT !.applications = @ \ {application},
                               !.members = [@ EXCEPT ![gid] = @ \cup {applicant}]],
                   [Out("ignore_application",
                        IF m = "AJAX" THEN "error" ELSE "redirect_detail", applicant, gid)
                    EXCEPT !.found = 1])

ignore_application(a, gid, appid, m) ==
  IF ~GroupExists(gid) \/ AppRows(appid) = {}
  THEN Answer("ignore_application", "not_found", NoUser, gid)
  ELSE
    LET application == AppOf(appid)
        applicant == application.user
    IN IF ~has_permission(a, gid)
       THEN Result(Cur, [Out("ignore_application", "bad_request", applicant, gid)
                         EXCEPT !.found = 1])
       ELSE IF ~IsPost(m)
       THEN Result(Cur, [Out("ignore_application", "confirmation", applicant, gid)
                         EXCEPT !.found = 1])
       ELSE Result([Cur EXCEPT !.applications = @ \ {application}],
                   [Out("ignore_application",
                        IF m = "AJAX" THEN "error" ELSE "redirect_detail", applicant, gid)
                    EXCEPT !.found = 1])

\* UserGroupApplication.objects.create(user=, group=): a new row stamped now.
CreateApplication(st, u, gid) ==
  [st EXCEPT !.applications =
               @ \cup {[id |-> st.nextApp, user |-> u, group |-> gid, created |-> clock]},
             !.nextApp = @ + 1]

\* apply_to_join_group: options.py never imports datetime, so the refresh of
\* an existing application raises NameError before application.save(); two
\* matching rows raise MultipleObjectsReturned; the AJAX branch dumps the
\* undefined `json_response`.
apply_to_join_group(a, gid, m) ==
  LET mine == {ap \in applications : ap.user = a /\ ap.group = gid}
      n == Cardinality(mine)
      already_member == a \in members[gid]
      out(resp) == [Out("apply_to_join_group", resp, a, gid)
                    EXCEPT !.found = n, !.already = already_member]
      done == IF m = "AJAX" THEN "error" ELSE "application"
  IN IF ~GroupExists(gid) THEN Answer("apply_to_join_group", "not_found", a, gid)
     ELSE IF ~IsPost(m) THEN Answer("apply_to_join_group", "confirmation", a, gid)
     ELSE IF already_member THEN Result(Cur, out(done))
     ELSE IF n >= 1 THEN Result(Cur, out("error"))
     ELSE LET st1 == CreateApplication(Cur, a, gid)
              sent == IF notification
                      THEN << Notice(admins[gid], "usergroups_application",
                                     a \in members[gid],
                                     \E ap \in st1.applications :
                                        ap.user = a /\ ap.group = gid) >>
                      ELSE << >>
          IN Result(st1, [out(done) EXCEPT !.sent = sent])

\* --------------------------------------------------------------- views.py
\* The standalone views act on any request method.

\* decorators.group_admin_required: resolves the group of the URL and lets
\* only a user with admin rights on it through.
group_admin_required(a, gid) == a = creator[gid] \/ a \in admins[gid]

views_delete_group(a, gid) ==
  IF ~GroupExists(gid) THEN Answer("views.delete_group", "not_found", a, gid)
  ELSE IF ~group_admin_required(a, gid) THEN Answer("views.delete_group", "forbidden", a, gid)
  ELSE Result(DeleteGroupRow(Cur, gid), Out("views.delete_group", "group_deleted", a, gid))

views_add_admin(a, gid, uid) ==
  IF ~GroupExists(gid) THEN Answer("views.add_admin", "not_found", uid, gid)
  ELSE IF ~group_admin_required(a, gid) THEN Answer("views.add_admin", "forbidden", uid, gid)
  ELSE IF ~UserExists(uid) THEN Answer("views.add_admin", "not_found", uid, gid)
  ELSE LET adm == [admins EXCEPT ![gid] = @ \cup {uid}]
           mem == IF uid \notin members[gid]
                  THEN [members EXCEPT ![gid] = @ \cup {uid}]
                  ELSE members
       IN Result([Cur EXCEPT !.admins = adm, !.members = mem],
                 Out("views.add_admin", "redirect_detail", uid, gid))

views_revoke_admin(a, gid, uid) ==
  IF ~GroupExists(gid) THEN Answer("views.revoke_admin", "not_found", uid, gid)
  ELSE IF ~group_admin_required(a, gid) THEN Answer("views.revoke_admin", "forbidden", uid, gid)
  ELSE IF ~UserExists(uid) THEN Answer("views.revoke_admin", "not_found", uid, gid)
  ELSE Result([Cur EXCEPT !.admins = remove_admin(@, gid, uid)],
              Out("views.revoke_admin", "redirect_detail", uid, gid))

views_remove_member(a, gid, uid) ==
  IF ~GroupExists(gid) THEN Answer("views.remove_member", "not_found", uid, gid)
  ELSE IF ~group_admin_required(a, gid) THEN Answer("views.remove_member", "forbidden", uid, gid)
  ELSE IF ~UserExists(uid) THEN Answer("views.remove_member", "not_found", uid, gid)
  ELSE Result([Cur EXCEPT !.admins = remove_admin(@, gid, uid),
                          !.members = [@ EXCEPT ![gid] = @ \ {uid}]],
              Out("views.remove_member", "redirect_detail", uid, gid))

\* views.leave_group takes a `group` argument that only @login_required
\* stands before: unless the caller resolves it (resolved), the call raises
\* TypeError before its first statement.
views_leave_group(a, gid, resolved) ==
  IF ~resolved THEN Answer("views.leave_group", "error", a, gid)
  ELSE IF ~GroupExists(gid) THEN Answer("views.leave_group", "not_found", a, gid)
  ELSE Result([Cur EXCEPT !.admins = remove_admin(@, gid, a),
                          !.members = [@ EXCEPT ![gid] = @ \ {a}]],
              Out("views.leave_group", "redirect_detail", a, gid))

views_approve_application(a, gid, appid) ==
  IF ~GroupExists(gid) THEN Answer("views.approve_application", "not_found", NoUser, gid)
  ELSE IF ~group_admin_required(a, gid)
  THEN Answer("views.approve_application", "forbidden", NoUser, gid)
  ELSE IF AppRows(appid) = {} THEN Answer("views.approve_application", "not_found", NoUser, gid)
  ELSE LET application == AppOf(appid)
       IN Result([Cur EXCEPT !.members = [@ EXCEPT ![gid] = @ \cup {application.user}],
                             !.applications = @ \ {application}],
                 [Out("views.approve_application", "redirect_detail", application.user, gid)
                  EXCEPT !.found = 1])

\* views.py imports datetime: the refresh of an existing application succeeds.
views_apply_to_join_group(a, gid) ==
  LET mine == {ap \in applications : ap.user = a /\ ap.group = gid}
      n == Cardinality(mine)
      already_member == a \in members[gid]
      out(resp) == [Out("views.apply_to_join_group", resp, a, gid)
                    EXCEPT !.found = n, !.already = already_member]
  IN IF ~GroupExists(gid) THEN Answer("views.apply_to_join_group", "not_found", a, gid)
     ELSE IF already_member THEN Result(Cur, out("application"))
     ELSE IF n >= 2 THEN Result(Cur, out("error"))
     ELSE IF n = 1
     THEN Result([Cur EXCEPT !.applications =
                     (@ \ mine) \cup {[ap EXCEPT !.created = clock] : ap \in mine}],
                 out("application"))
     ELSE Result(CreateApplication(Cur, a, gid), out("application"))

\* ------------------------------------------------------------------ steps

\* One request is served at a time: a view runs when no response is in flight
\* and commits its result.
Handle(r) ==
  /\ last = Idle
  /\ groups' = r.st.groups
  /\ nextGroup' = r.st.nextGroup
  /\ creator' = r.st.creator
  /\ name' = r.st.name
  /\ members' = r.st.members
  /\ admins' = r.st.admins
  /\ applications' = r.st.applications
  /\ nextApp' = r.st.nextApp
  /\ invitations' = r.st.invitations
  /\ nextInv' = r.st.nextInv
  /\ last' = r.out
  /\ UNCHANGED <<clock, notification, procs, registry>>

\* The response reaches the client.
Deliver ==
  /\ last # Idle
  /\ last' = Idle
  /\ UNCHANGED <<db, clock, notification, procs, registry>>

\* Time passes between requests.
Tick ==
  /\ last = Idle
  /\ clock < MaxClock
  /\ clock' = clock + 1
  /\ UNCHANGED <<db, notification, last, procs, registry>>

\* Primary keys are handed out up to the bounds.
WithinBounds(st) ==
  /\ st.nextGroup - 1 \in GroupIds \cup {0}
  /\ st.nextApp <= MaxApps + 1
  /\ st.nextInv <= MaxInvs + 1

Serve(r) == last = Idle /\ WithinBounds(r.st) /\ Handle(r)

CreateGroup ==
  \E a \in Users, d \in NewGroupData, m \in Methods : Serve(create_group(a, d, m))
EditGroup ==
  \E a \in Users, gid \in GroupIds, d \in FormData, m \in Methods :
    Serve(edit_group(a, gid, d, m))
DeleteGroup ==
  \E a \in Users, gid \in GroupIds, m \in Methods : Serve(delete_group(a, gid, m))
RemoveMember ==
  \E a \in Users, gid \in GroupIds, uid \in UserIds, m \in Methods :
    Serve(remove_member(a, gid, uid, m))
AddAdmin ==
  \E a \in Users, gid \in GroupIds, uid \in UserIds, m \in Methods :
    Serve(add_admin(a, gid, uid, m))
RevokeAdmin ==
  \E a \in Users, gid \in GroupIds, uid \in UserIds, m \in Methods :
    Serve(revoke_admin(a, gid, uid, m))
LeaveGroup ==
  \E a \in Users, gid \in GroupIds, m \in Methods : Serve(leave_group(a, gid, m))
CreateEmailInvitation ==
  \E a \in Users, gid \in GroupIds, valid \in BOOLEAN, k \in Keys, m \in Methods :
    Serve(create_email_invitation(a, gid, valid, k, m))
ValidateEmailInvitation ==
  \E a \in Users, gid \in GroupIds, k \in Keys :
    Serve(validate_email_invitation(a, gid, k))
ApproveApplication ==
  \E a \in Users, gid \in GroupIds, appid \in AppIds, m \in Methods :
    Serve(approve_application(a, gid, appid, m))
IgnoreApplication ==
  \E a \in Users, gid \in GroupIds, appid \in AppIds, m \in Methods :
    Serve(ignore_application(a, gid, appid, m))
ApplyToJoinGroup ==
  \E a \in Users, gid \in GroupIds, m \in Methods : Serve(apply_to_join_group(a, gid, m))
ViewsDeleteGroup ==
  \E a \in Users, gid \in GroupIds : Serve(views_delete_group(a, gid))
ViewsAddAdmin ==
  \E a \in Users, gid \in GroupIds, uid \in UserIds : Serve(views_add_admin(a, gid, uid))
ViewsRevokeAdmin ==
  \E a \in Users, gid \in GroupIds, uid \in UserIds : Serve(views_revoke_admin(a, gid, uid))
ViewsRemoveMember ==
  \E a \in Users, gid \in GroupIds, uid \in UserIds : Serve(views_remove_member(a, gid, uid))
ViewsLeaveGroup ==
  \E a \in Users, gid \in GroupIds, resolved \in BOOLEAN :
    Serve(views_leave_group(a, gid, resolved))
ViewsApproveApplication ==
  \E a \in Users, gid \in GroupIds, appid \in AppIds :
    Serve(views_approve_application(a, gid, appid))
ViewsApplyToJoinGroup ==
  \E a \in Users, gid \in GroupIds : Serve(views_apply_to_join_group(a, gid))

Next ==
  \/ CreateGroup \/ EditGroup \/ DeleteGroup
  \/ RemoveMember \/ AddAdmin \/ RevokeAdmin \/ LeaveGroup
  \/ CreateEmailInvitation \/ ValidateEmailInvitation
  \/ ApproveApplication \/ IgnoreApplication \/ ApplyToJoinGroup
  \/ ViewsDeleteGroup \/ ViewsAddAdmin \/ ViewsRevokeAdmin \/ ViewsRemoveMember
  \/ ViewsApproveApplication \/ ViewsApplyToJoinGroup
  \/ ViewsLeaveGroup
  \/ Deliver \/ Tick

Spec == Init /\ [][Next]_vars

\* The default settings: USERGROUPS_SEND_NOTIFICATIONS unset, notification None.
InitPlain == Init /\ ~notification

\* Membership and admin rights, over two groups.
NextMembers ==
  \/ CreateGroup \/ DeleteGroup
  \/ RemoveMember \/ AddAdmin \/ RevokeAdmin \/ LeaveGroup
  \/ ViewsDeleteGroup \/ ViewsAddAdmin \/ ViewsRevokeAdmin \/ ViewsRemoveMember
  \/ Deliver
SpecMembers == InitPlain /\ [][NextMembers]_vars

\* Applications, with and without notifications.
NextApps ==
  \/ CreateGroup
  \/ ApplyToJoinGroup \/ ApproveApplication \/ IgnoreApplication
  \/ ViewsApproveApplication \/ ViewsApplyToJoinGroup
  \/ Deliver \/ Tick
SpecApps == Init /\ [][NextApps]_vars

\* E-mail invitations.
NextInvs ==
  \/ CreateGroup
  \/ CreateEmailInvitation \/ ValidateEmailInvitation
  \/ Deliver
SpecInvs == InitPlain /\ [][NextInvs]_vars

\* The admin-only views on one group holding one application and one invitation.
NextGate ==
  \/ (nextGroup = 1 /\ CreateGroup)
  \/ (nextApp = 1 /\ ApplyToJoinGroup)
  \/ AddAdmin \/ RevokeAdmin \/ RemoveMember \/ DeleteGroup \/ EditGroup
  \/ (nextInv = 1 /\ CreateEmailInvitation)
  \/ ApproveApplication \/ IgnoreApplication
  \/ Deliver
SpecGate == InitPlain /\ [][NextGate]_vars

\* Every view of the configuration object on one group, which holds at most
\* one application and one invitation.
NextConfig ==
  \/ (nextGroup = 1 /\ CreateGroup)
  \/ EditGroup \/ DeleteGroup
  \/ RemoveMember \/ AddAdmin \/ RevokeAdmin \/ LeaveGroup
  \/ (nextApp = 1 /\ ApplyToJoinGroup)
  \/ ApproveApplication \/ IgnoreApplication
  \/ (nextInv = 1 /\ CreateEmailInvitation)
  \/ ValidateEmailInvitation
  \/ Deliver
SpecConfig == InitPlain /\ [][NextConfig]_vars

\* The membership views of both files on group 1, while group 2 is stored
\* with its creator and holds at most one application and one invitation.
NextFrame ==
  \/ CreateGroup
  \/ (nextApp = 1 /\ ApplyToJoinGroup /\ last'.group = 2)
  \/ (nextInv = 1 /\ CreateEmailInvitation /\ last'.group = 2)
  \/ (AddAdmin /\ last'.group = 1)
  \/ (RevokeAdmin /\ last'.group = 1)
  \/ (RemoveMember /\ last'.group = 1)
  \/ (LeaveGroup /\ last'.group = 1)
  \/ (ViewsAddAdmin /\ last'.group = 1)
  \/ (ViewsRevokeAdmin /\ last'.group = 1)
  \/ (ViewsRemoveMember /\ last'.group = 1)
  \/ (ViewsLeaveGroup /\ last'.group = 1)
  \/ Deliver
SpecFrame == InitPlain /\ [][NextFrame]_vars

\* ------------------------------------- views running statement by statement
\* No view takes a lock or opens a transaction: each ORM call is a statement
\* of its own, and statements of requests in progress together interleave.

Request(op, impl, u, target, g, pc) ==
  [op |-> op, pc |-> pc, impl |-> impl, user |-> u, target |-> target,
   group |-> g, seen |-> 0, resp |-> "none"]

Running(p) == procs[p].pc # "done"

\* leave_group (POST) up to its sole-admin test: group.admins.count() == 1
\* and request.user in group.admins.all().
LeaveCheck(p, u, g) ==
  /\ ~Running(p)
  /\ GroupExists(g)
  /\ procs' = [procs EXCEPT ![p] =
                 IF Cardinality(admins[g]) = 1 /\ u \in admins[g]
                 THEN [Request("leave_group", "options", u, u, g, "done")
                       EXCEPT !.resp = "redirect_delete"]
                 ELSE Request("leave_group", "options", u, u, g, "remove_admin")]
  /\ UNCHANGED <<db, clock, notification, last, registry>>

\* leave_group: group.remove_admin(request.user)
LeaveRemoveAdmin(p) ==
  /\ procs[p].op = "leave_group" /\ procs[p].pc = "remove_admin"
  /\ admins' = remove_admin(admins, procs[p].group, procs[p].user)
  /\ procs' = [procs EXCEPT ![p].pc = "remove_member"]
  /\ UNCHANGED <<groups, nextGroup, creator, name, members,
                 applications, nextApp, invitations, nextInv>>
  /\ UNCHANGED <<clock, notification, last, registry>>

\* leave_group: group.members.remove(request.user), then the redirect.
LeaveRemoveMember(p) ==
  /\ procs[p].op = "leave_group" /\ procs[p].pc = "remove_member"
  /\ members' = [members EXCEPT ![procs[p].group] = @ \ {procs[p].user}]
  /\ procs' = [procs EXCEPT ![p].pc = "done", ![p].resp = "redirect_detail"]
  /\ UNCHANGED <<groups, nextGroup, creator, name, admins,
                 applications, nextApp, invitations, nextInv>>
  /\ UNCHANGED <<clock, notification, last, registry>>

\* Users leaving one group while other requests are in progress.
NextLeaveRace ==
  \/ (nextGroup = 1 /\ CreateGroup)
  \/ AddAdmin
  \/ Deliver
  \/ \E p \in Procs, u \in Users, g \in GroupIds : LeaveCheck(p, u, g)
  \/ \E p \in Procs : LeaveRemoveAdmin(p)
  \/ \E p \in Procs : LeaveRemoveMember(p)
SpecLeaveRace == InitPlain /\ [][NextLeaveRace]_vars

\* apply_to_join_group (POST; impl tells options.py from views.py) up to the
\* lookup of the user's application: a member is answered at once, anyone
\* else goes on with the number of rows the lookup matched and, when it
\* matched one, the primary key of that row.
ApplyLookup(p, impl, u, g) ==
  LET mine == {ap \in applications : ap.user = u /\ ap.group = g}
      n == Cardinality(mine)
      req == Request("apply_to_join_group", impl, u, NoUser, g, "write")
  IN /\ ~Running(p)
     /\ GroupExists(g)
     /\ procs' = [procs EXCEPT ![p] =
                    IF u \in members[g]
                    THEN [req EXCEPT !.pc = "done", !.resp = "application"]
                    ELSE [req EXCEPT !.seen = n,
                                     !.target = IF n = 1
                                                THEN (CHOOSE ap \in mine : TRUE).id
                                                ELSE NoUser]]
     /\ UNCHANGED <<db, clock, notification, last, registry>>

\* apply_to_join_group after the lookup: DoesNotExist creates a row; one row
\* is stamped and saved by views.py, while options.py raises NameError on
\* datetime; more rows raise MultipleObjectsReturned.
ApplyWrite(p) ==
  LET r == procs[p]
      st1 == CreateApplication(Cur, r.user, r.group)
  IN /\ r.op = "apply_to_join_group" /\ r.pc = "write"
     /\ applications' =
          IF r.seen = 0 THEN st1.applications
          ELSE IF r.seen = 1 /\ r.impl = "views"
          THEN {IF ap.id = r.target THEN [ap EXCEPT !.created = clock] ELSE ap :
                  ap \in applications}
          ELSE applications
     /\ nextApp' = IF r.seen = 0 THEN st1.nextApp ELSE nextApp
     /\ procs' = [procs EXCEPT ![p].pc = "done",
                               ![p].resp = IF r.seen = 0 \/ (r.seen = 1 /\ r.impl = "views")
                                           THEN "application" ELSE "error"]
     /\ UNCHANGED <<groups, nextGroup, creator, name, members, admins,
                    invitations, nextInv>>
     /\ UNCHANGED <<clock, notification, last, registry>>

\* Users applying to one group while other requests are in progress.
NextApplyRace ==
  \/ (nextGroup = 1 /\ CreateGroup)
  \/ Deliver
  \/ Tick
  \/ \E p \in Procs, impl \in {"options", "views"}, u \in Users, g \in GroupIds :
       ApplyLookup(p, impl, u, g)
  \/ \E p \in Procs : ApplyWrite(p)
SpecApplyRace == InitPlain /\ [][NextApplyRace]_vars

\* remove_member (POST) up to its method test, for a request that passes
\* every test: both rows exist, the actor has permission and names another
\* user.
RemoveCheck(p, a, g, u) ==
  /\ ~Running(p)
  /\ UserExists(u) /\ GroupExists(g)
  /\ has_permission(a, g)
  /\ u # a
  /\ procs' = [procs EXCEPT ![p] =
                 Request("remove_member", "options", a, u, g, "remove_admin")]
  /\ UNCHANGED <<db, clock, notification, last, registry>>

\* remove_member with both removals made by one statement.
RemoveAdminStep_both(p) ==
  /\ procs[p].op = "remove_member" /\ procs[p].pc = "remove_admin"
  /\ admins' = remove_admin(admins, procs[p].group, procs[p].target)
  /\ members' = [members EXCEPT ![procs[p].group] = @ \ {procs[p].target}]
  /\ procs' = [procs EXCEPT ![p].pc = "remove_member"]
  /\ UNCHANGED <<groups, nextGroup, creator, name,
                 applications, nextApp, invitations, nextInv>>
  /\ UNCHANGED <<clock, notification, last, registry>>

\* remove_member: group.remove_admin(member)
RemoveAdminStep(p) ==
  /\ procs[p].op = "remove_member" /\ procs[p].pc = "remove_admin"
  /\ admins' = remove_admin(admins, procs[p].group, procs[p].target)
  /\ procs' = [procs EXCEPT ![p].pc = "remove_member"]
  /\ UNCHANGED <<groups, nextGroup, creator, name, members,
                 applications, nextApp, invitations, nextInv>>
  /\ UNCHANGED <<clock, notification, last, registry>>

\* remove_member: group.members.remove(member), then the redirect.
RemoveMembersStep(p) ==
  /\ procs[p].op = "remove_member" /\ procs[p].pc = "remove_member"
  /\ members' = [members EXCEPT ![procs[p].group] = @ \ {procs[p].target}]
  /\ procs' = [procs EXCEPT ![p].pc = "done", ![p].resp = "redirect_detail"]
  /\ UNCHANGED <<groups, nextGroup, creator, name, admins,
                 applications, nextApp, invitations, nextInv>>
  /\ UNCHANGED <<clock, notification, last, registry>>

\* A request in progress dies (the worker is killed, the connection drops):
\* what it wrote stays, what it had yet to write is never written.
Stop(p) ==
  /\ Running(p)
  /\ procs' = [procs EXCEPT ![p].pc = "done", ![p].resp = "stopped"]
  /\ UNCHANGED <<db, clock, notification, last, registry>>

\* Members being removed from one group, by one request at a time, while
\* admins are added.
NextRemoveRace ==
  \/ (nextGroup = 1 /\ CreateGroup)
  \/ AddAdmin
  \/ Deliver
  \/ \E p \in Procs, a \in Users, g \in GroupIds, u \in Users :
       (\A q \in Procs \ {p} : procs[q] = NoRequest) /\ RemoveCheck(p, a, g, u)
  \/ \E p \in Procs : RemoveAdminStep(p)
  \/ \E p \in Procs : RemoveMembersStep(p)
  \/ \E p \in Procs : Stop(p)
SpecRemoveRace == InitPlain /\ [][NextRemoveRace]_vars

\* ------------------------------------------------- options.py GroupOptions

\* self.configurations of instance i.
ConfigurationsOf(i) == dicts[self_dict[i]]

\* BaseUserGroupConfiguration.__init__: the model must extend BaseUserGroup.
ConfigurationAccepts(model) == model \in GroupModels

\* The outcome of a registry call: the dictionaries and what the caller gets.
Outcome(ds, call, i, key, model, raised, value) ==
  [dicts |-> ds,
   returned |-> [call |-> call, via |-> i, key |-> key, model |-> model,
                 raised |-> raised, value |-> value]]

\* GroupOptions.register: a stored key raises ConfigurationAlreadyRegistered;
\* a KeyError builds configuration(slug=key, model=model), whose __init__ may
\* raise ValueError before anything is assigned.
register(i, key, model) ==
  IF ConfigurationsOf(i)[key] # Unregistered
  THEN Outcome(dicts, "register", i, key, model,
               "ConfigurationAlreadyRegistered", Unregistered)
  ELSE IF ~ConfigurationAccepts(model)
  THEN Outcome(dicts, "register", i, key, model, "ValueError", Unregistered)
  ELSE Outcome([dicts EXCEPT ![self_dict[i]][key] = [slug |-> key, model |-> model]],
               "register", i, key, model, "", Unregistered)

\* GroupOptions.get
get(i, key) ==
  IF ConfigurationsOf(i)[key] = Unregistered
  THEN Outcome(dicts, "get", i, key, "", "ConfigurationNotRegistered", Unregistered)
  ELSE Outcome(dicts, "get", i, key, "", "", ConfigurationsOf(i)[key])

\* A registry call made through a constructed instance.
Call(r) ==
  /\ dicts' = r.dicts
  /\ returned' = r.returned
  /\ UNCHANGED <<db, clock, notification, last, procs, self_dict>>

Register ==
  \E i \in DOMAIN self_dict, key \in RegKeys, model \in Models :
    Call(register(i, key, model))

Get == \E i \in DOMAIN self_dict, key \in RegKeys : Call(get(i, key))

\* GroupOptions(): one more instance.
NewGroupOptions ==
  \E j \in Instances \ DOMAIN self_dict :
    /\ self_dict' = [i \in DOMAIN self_dict \cup {j} |->
                       IF i = j THEN GroupOptions_init(j) ELSE self_dict[i]]
    /\ UNCHANGED <<db, clock, notification, last, procs, dicts, returned>>

NextRegistry == Register \/ Get \/ NewGroupOptions
SpecRegistry == InitPlain /\ [][NextRegistry]_vars

\* ------------------------------------------------------------------ claims

PostMethods == {"POST", "AJAX"}

\* C1: after a POST add_admin by the creator or an admin of g completes, u is
\* an admin and a member of g, whatever u was before (options.py and views.py).
C1_AddAdminGrantsBoth ==
  [][last'.op \in {"add_admin", "views.add_admin"} =>
     \A a \in Users, g \in GroupIds, u \in Users :
       ( /\ g \in groups
         /\ has_permission(a, g)
         /\ last'.user = u /\ last'.group = g
         /\ \/ \E m \in PostMethods : Handle(add_admin(a, g, u, m))
            \/ Handle(views_add_admin(a, g, u)) )
       => /\ u \in admins'[g]
          /\ u \in members'[g]
          /\ last'.resp = "redirect_detail"]_vars

\* C1 witness: add_admin answered its redirect for a user who was neither a
\* member nor an admin of the group and now is both.
C1_Witness ==
  /\ last.op = "add_admin"
  /\ last.resp = "redirect_detail"
  /\ ~last.wasMember /\ ~last.wasAdmin
  /\ last.user \in admins[last.group] \cap members[last.group]

\* C2: after a POST revoke_admin by a permitted actor, u is not an admin of g
\* and the members of every group are what they were.
C2_RevokeAdminKeepsMembers ==
  [][last'.op \in {"revoke_admin", "views.revoke_admin"} =>
     \A a \in Users, g \in GroupIds, u \in Users :
       ( /\ g \in groups
         /\ has_permission(a, g)
         /\ last'.user = u /\ last'.group = g
         /\ \/ \E m \in PostMethods : Handle(revoke_admin(a, g, u, m))
            \/ Handle(views_revoke_admin(a, g, u)) )
       => /\ u \notin admins'[g]
          /\ members' = members]_vars

\* C2 witness: revoke_admin ran on an admin who was a member; the user is no
\* longer an admin and still a member.
C2_Witness ==
  /\ last.op = "revoke_admin"
  /\ last.resp = "redirect_detail"
  /\ last.wasAdmin /\ last.wasMember
  /\ last.user \notin admins[last.group]
  /\ last.user \in members[last.group]

\* C3: an admin-only view of options.py invoked on group g by a user who is
\* neither its creator nor one of its admins writes nothing, whatever the
\* method; when the user or application it names exists the answer is
\* HttpResponseBadRequest (a missing row is answered 404 before the gate).
C3_PermissionGate ==
  [][\A a \in Users, g \in GroupIds, m \in Methods :
       (g \in groups /\ ~has_permission(a, g)) =>
         /\ last'.op = "add_admin" =>
              \A u \in UserIds : Handle(add_admin(a, g, u, m))
                => UNCHANGED db /\ (u \in Users => last'.resp = "bad_request")
         /\ last'.op = "revoke_admin" =>
              \A u \in UserIds : Handle(revoke_admin(a, g, u, m))
                => UNCHANGED db /\ (u \in Users => last'.resp = "bad_request")
         /\ last'.op = "remove_member" =>
              \A u \in UserIds : Handle(remove_member(a, g, u, m))
                => UNCHANGED db /\ (u \in Users => last'.resp = "bad_request")
         /\ last'.op = "delete_group" =>
              ( Handle(delete_group(a, g, m))
                => UNCHANGED db /\ last'.resp = "bad_request" )
         /\ last'.op = "edit_group" =>
              \A d \in FormData : Handle(edit_group(a, g, d, m))
                => UNCHANGED db /\ last'.resp = "bad_request"
         /\ last'.op = "create_email_invitation" =>
              \A valid \in BOOLEAN, k \in Keys :
                Handle(create_email_invitation(a, g, valid, k, m))
                => UNCHANGED db /\ last'.resp = "bad_request"
         /\ last'.op = "approve_application" =>
              \A appid \in AppIds : Handle(approve_application(a, g, appid, m))
                => UNCHANGED db /\ (AppRows(appid) # {} => last'.resp = "bad_request")
         /\ last'.op = "ignore_application" =>
              \A appid \in AppIds : Handle(ignore_application(a, g, appid, m))
                => UNCHANGED db /\ (AppRows(appid) # {} => last'.resp = "bad_request")]_vars

\* C3 witness: approve_application refused a request for a stored application
\* while an invitation was stored as well.
C3_Witness ==
  /\ last.op = "approve_application"
  /\ last.resp = "bad_request"
  /\ last.found = 1
  /\ applications # {}
  /\ invitations # {}

\* C4: a POST leave_group by the only admin of g changes neither members nor
\* admins and redirects to the delete-group view.
C4_SoleAdminLeave ==
  [][last'.op = "leave_group" =>
     \A u \in Users, g \in GroupIds, m \in PostMethods :
       ( /\ g \in groups /\ admins[g] = {u}
         /\ last'.user = u /\ last'.group = g
         /\ Handle(leave_group(u, g, m)) )
       => /\ members' = members
          /\ admins' = admins
          /\ last'.resp = "redirect_delete"]_vars

\* C4 witness: the only admin of a group with another member asked to leave
\* and was sent to the delete-group view.
C4_Witness ==
  /\ last.op = "leave_group"
  /\ last.resp = "redirect_delete"
  /\ admins[last.group] = {last.user}
  /\ Cardinality(members[last.group]) > 1

\* Rows a lookup matches.
InvitationsWith(key) == {iv \in invitations : iv.key = key}
ApplicationsOf(u, g) == {ap \in applications : ap.user = u /\ ap.group = g}

\* C5, as claimed: redeeming a key stored on more than one invitation removes
\* every invitation with that key and leaves the members of the group alone.
C5_AsClaimed ==
  [][last'.op = "validate_email_invitation" =>
     \A u \in Users, g \in GroupIds, k \in Keys :
       ( /\ g \in groups
         /\ Cardinality(InvitationsWith(k)) > 1
         /\ Handle(validate_email_invitation(u, g, k)) )
       => /\ \A iv \in invitations' : iv.key # k
          /\ members' = members]_vars

\* C5, amended: redeeming a key stored on more than one invitation removes
\* every invitation with that key, keeps the others, and adds the redeeming
\* user to the members of the group, answering the joined redirect.
C5_DuplicateKeyStillJoins ==
  [][last'.op = "validate_email_invitation" =>
     \A u \in Users, g \in GroupIds, k \in Keys :
       ( /\ g \in groups
         /\ Cardinality(InvitationsWith(k)) > 1
         /\ Handle(validate_email_invitation(u, g, k)) )
       => /\ invitations' = invitations \ InvitationsWith(k)
          /\ members' = [members EXCEPT ![g] = @ \cup {u}]
          /\ admins' = admins
          /\ last'.resp = "redirect_joined"]_vars

\* C5 witness: a key that two invitations carried was redeemed by a user who
\* was not a member and now is one; no invitation is left.
C5_Witness ==
  /\ last.op = "validate_email_invitation"
  /\ last.found = 2
  /\ ~last.wasMember
  /\ last.user \in members[last.group]
  /\ invitations = {}

\* C6: redeeming a key that exactly one invitation carries deletes that
\* invitation, adds the user to the members of g and redirects to the joined
\* view; redeeming a key no invitation carries answers the invalid-invitation
\* view and leaves members, admins and invitations as they were.
C6_RedeemInvitation ==
  [][last'.op = "validate_email_invitation" =>
     \A u \in Users, g \in GroupIds, k \in Keys :
       (g \in groups /\ Handle(validate_email_invitation(u, g, k)))
       => /\ Cardinality(InvitationsWith(k)) = 1 =>
               /\ invitations' = invitations \ InvitationsWith(k)
               /\ u \in members'[g]
               /\ last'.resp = "redirect_joined"
          /\ InvitationsWith(k) = {} =>
               /\ last'.resp = "invalid_invitation"
               /\ UNCHANGED <<members, admins, invitations>>]_vars

\* C6 witness: the one invitation carrying the key was redeemed by a user who
\* was not a member, while an invitation with another key stays stored.
C6_Witness ==
  /\ last.op = "validate_email_invitation"
  /\ last.resp = "redirect_joined"
  /\ last.found = 1
  /\ ~last.wasMember
  /\ last.user \in members[last.group]
  /\ invitations # {}

\* C7, as claimed: a POST apply_to_join_group (options.py or views.py) leaves
\* membership alone and (1) for a member writes nothing and reports
\* already_member, (2) for a non-member without an application creates exactly
\* one and reports not already_member, (3) for a non-member with a pending
\* application completes by stamping that application with the current time,
\* the number of applications of (u, g) staying one.
C7_AsClaimed ==
  [][last'.op \in {"apply_to_join_group", "views.apply_to_join_group"} =>
     \A u \in Users, g \in GroupIds :
       ( /\ g \in groups
         /\ \/ Handle(apply_to_join_group(u, g, "POST"))
            \/ Handle(views_apply_to_join_group(u, g)) )
       => /\ members' = members /\ admins' = admins
          /\ u \in members[g] =>
               applications' = applications /\ last'.already
          /\ (u \notin members[g] /\ ApplicationsOf(u, g) = {}) =>
               /\ \E ap \in applications' :
                    /\ ap.user = u /\ ap.group = g
                    /\ applications' = applications \cup {ap}
                    /\ ap \notin applications
               /\ ~last'.already
               /\ last'.resp = "application"
          /\ (u \notin members[g] /\ ApplicationsOf(u, g) # {}) =>
               /\ last'.resp = "application"
               /\ Cardinality({ap \in applications' : ap.user = u /\ ap.group = g}) = 1
               /\ \A ap \in applications' :
                    (ap.user = u /\ ap.group = g) => ap.created = clock]_vars

\* C8: a POST approve_application by a permitted actor adds the applicant to
\* the members of g, deletes the application, leaves admins alone, and every
\* notification it sends goes to the applicant alone, after the membership is
\* granted and the row deleted (options.py sends exactly one when notifications
\* are enabled).  With admins(g) = members(g) = {a} and an application of b to
\* g, the members become {a, b} and no application of b to g is left.
C8_ApproveApplication ==
  [][last'.op \in {"approve_application", "views.approve_application"} =>
     \A a \in Users, g \in GroupIds, appid \in AppIds :
       ( /\ g \in groups /\ AppRows(appid) # {}
         /\ has_permission(a, g) )
       => LET application == AppOf(appid)
              b == application.user
          IN ( \/ \E m \in PostMethods : Handle(approve_application(a, g, appid, m))
               \/ Handle(views_approve_application(a, g, appid)) )
             => /\ members' = [members EXCEPT ![g] = @ \cup {b}]
                /\ applications' = applications \ {application}
                /\ admins' = admins
                /\ \A i \in 1..Len(last'.sent) :
                     /\ last'.sent[i].to = {b}
                     /\ last'.sent[i].isMember
                     /\ ~last'.sent[i].rowExists
                /\ (notification /\ last'.op = "approve_application")
                     => Len(last'.sent) = 1
                /\ ~notification => last'.sent = << >>
                /\ (admins[g] = {a} /\ members[g] = {a} /\ application.group = g)
                     => /\ members'[g] = {a, b}
                        /\ {ap \in applications' : ap.user = b /\ ap.group = g} = {}]_vars

\* C8 witness: with notifications enabled, an application of a non-member was
\* approved: the applicant is a member, the row is gone, one notice was sent.
C8_Witness ==
  /\ last.op = "approve_application"
  /\ last.resp = "redirect_detail"
  /\ notification
  /\ ~last.wasMember
  /\ last.user \in members[last.group]
  /\ last.user \notin admins[last.group]
  /\ ApplicationsOf(last.user, last.group) = {}
  /\ Len(last.sent) = 1

\* C9: a POST ignore_application by a permitted actor deletes the application,
\* leaves the members and admins of every group alone and sends nothing.
C9_IgnoreApplication ==
  [][last'.op = "ignore_application" =>
     \A a \in Users, g \in GroupIds, appid \in AppIds, m \in PostMethods :
       ( /\ g \in groups /\ AppRows(appid) # {}
         /\ has_permission(a, g)
         /\ Handle(ignore_application(a, g, appid, m)) )
       => /\ applications' = applications \ AppRows(appid)
          /\ members' = members
          /\ admins' = admins
          /\ last'.sent = << >>]_vars

\* C9 witness: with notifications enabled, the application of a non-member was
\* ignored: the row is gone, the applicant is still no member, nothing was sent.
C9_Witness ==
  /\ last.op = "ignore_application"
  /\ last.resp = "redirect_detail"
  /\ last.found = 1
  /\ notification
  /\ last.user \notin members[last.group]
  /\ applications = {}
  /\ last.sent = << >>

\* C10, as claimed: after a POST remove_member by a permitted actor a, the
\* user u - a included - is in neither admins(g) nor members(g).
C10_AsClaimed ==
  [][last'.op \in {"remove_member", "views.remove_member"} =>
     \A a \in Users, g \in GroupIds, u \in Users :
       ( /\ g \in groups
         /\ has_permission(a, g)
         /\ \/ \E m \in PostMethods : Handle(remove_member(a, g, u, m))
            \/ Handle(views_remove_member(a, g, u)) )
       => u \notin admins'[g] /\ u \notin members'[g]]_vars

\* C10, amended: after a POST remove_member by a permitted actor a, every
\* user u other than a is in neither admins(g) nor members(g); for u = a the
\* view of options.py writes nothing and redirects to leave_group (only the
\* view of views.py removes the actor too).
C10_RemoveMemberRemovesOthers ==
  [][last'.op \in {"remove_member", "views.remove_member"} =>
     \A a \in Users, g \in GroupIds, u \in Users :
       (g \in groups /\ has_permission(a, g) /\ last'.user = u /\ last'.group = g)
       => /\ ( /\ u # a
               /\ \/ \E m \in PostMethods : Handle(remove_member(a, g, u, m))
                  \/ Handle(views_remove_member(a, g, u)) )
             => u \notin admins'[g] /\ u \notin members'[g]
          /\ (u = a /\ \E m \in PostMethods : Handle(remove_member(a, g, a, m)))
             => UNCHANGED db /\ last'.resp = "redirect_leave"
          /\ (u = a /\ Handle(views_remove_member(a, g, a)))
             => a \notin admins'[g] /\ a \notin members'[g]]_vars

\* C10 witness: remove_member took an admin who was a member out of both.
C10_Witness ==
  /\ last.op = "remove_member"
  /\ last.resp = "redirect_detail"
  /\ last.wasAdmin /\ last.wasMember
  /\ last.user \notin admins[last.group]
  /\ last.user \notin members[last.group]

C12_RetryIdempotent ==
  [][\A a \in Users, g \in GroupIds :
       (g \in groups /\ last'.group = g) =>
         /\ has_permission(a, g) =>
              /\ last'.op = "add_admin" =>
                   \A u \in Users, m \in PostMethods :
                     Handle(add_admin(a, g, u, m))
                     => (add_admin(a, g, u, m).st)' = Cur'
              /\ last'.op = "revoke_admin" =>
                   \A u \in Users, m \in PostMethods :
                     Handle(revoke_admin(a, g, u, m))
                     => (revoke_admin(a, g, u, m).st)' = Cur'
              /\ last'.op = "remove_member" =>
                   \A u \in Users, m \in PostMethods :
                     Handle(remove_member(a, g, u, m))
                     => (remove_member(a, g, u, m).st)' = Cur'
              /\ last'.op = "approve_application" =>
                   \A appid \in AppIds, m \in PostMethods :
                     (AppRows(appid) # {} /\ Handle(approve_application(a, g, appid, m)))
                     => /\ (approve_application(a, g, appid, m).st)' = Cur'
                        /\ (approve_application(a, g, appid, m).out.resp)' = "not_found"
              /\ last'.op = "ignore_application" =>
                   \A appid \in AppIds, m \in PostMethods :
                     (AppRows(appid) # {} /\ Handle(ignore_application(a, g, appid, m)))
                     => /\ (ignore_application(a, g, appid, m).st)' = Cur'
                        /\ (ignore_application(a, g, appid, m).out.resp)' = "not_found"
         /\ last'.op = "validate_email_invitation" =>
              \A k \in Keys :
                Handle(validate_email_invitation(a, g, k))
                => /\ (validate_email_invitation(a, g, k).st)' = Cur'
                   /\ (validate_email_invitation(a, g, k).out.resp)' = "invalid_invitation"]_vars

\* C12 witness: an application was approved, the applicant is a member, and
\* no approve_application sent now for that group would write anything.
C12_Witness ==
  /\ last.op = "approve_application"
  /\ last.resp = "redirect_detail"
  /\ ~last.wasMember
  /\ last.user \in members[last.group]
  /\ \A a \in Users, appid \in AppIds :
       approve_application(a, last.group, appid, "POST").st = Cur

\* C13, as claimed: every request to every view of the configuration object
\* ends in a response (a redirect, a rendered template, a JSON body, 404 or
\* bad request), never in an unhandled error.
C13_AsClaimed == last.resp # "error"

\* C15: in every reachable state the creator of a stored group passes
\* has_permission on it, and whenever a request can be served none of the
\* eight admin-only views of the configuration object refuses the creator,
\* whether or not the creator is still among the admins or the members.
C15_CreatorAlwaysPermitted ==
  \A g \in groups :
    LET c == creator[g] IN
    /\ has_permission(c, g)
    /\ \A m \in Methods :
         last = Idle =>
         /\ delete_group(c, g, m).out.resp # "bad_request"
         /\ \A d \in FormData : edit_group(c, g, d, m).out.resp # "bad_request"
         /\ \A u \in Users :
              /\ add_admin(c, g, u, m).out.resp # "bad_request"
              /\ revoke_admin(c, g, u, m).out.resp # "bad_request"
              /\ remove_member(c, g, u, m).out.resp # "bad_request"
         /\ \A k \in Keys :
              create_email_invitation(c, g, TRUE, k, m).out.resp # "bad_request"
         /\ \A appid \in AppIds :
              /\ approve_application(c, g, appid, m).out.resp # "bad_request"
              /\ ignore_application(c, g, appid, m).out.resp # "bad_request"

\* C15 witness: the creator of a group, who is no longer an admin nor a
\* member of it, asked to delete it and was shown the confirmation view.
C15_Witness ==
  /\ last.op = "delete_group"
  /\ last.resp = "confirmation"
  /\ last.group \in groups
  /\ last.user = creator[last.group]
  /\ last.user \notin admins[last.group]
  /\ last.user \notin members[last.group]

\* C16, as claimed: every stored group has at least one admin, after any
\* sequence of completed requests that starts from create_group (which makes
\* the creator an admin).
C16_AsClaimed == \A g \in groups : admins[g] # {}

\* C17: the admins of a group are among its members in every state reached
\* by requests to the configuration object served one after the other,
\* starting from create_group (which makes the creator both).
C17_AdminsAreMembers == \A g \in GroupIds : admins[g] \subseteq members[g]

\* C17 witness: an admin left a group that keeps another member; the user is
\* gone from both relations and the admins are still among the members.
C17_Witness ==
  /\ last.op = "leave_group"
  /\ last.resp = "redirect_detail"
  /\ last.wasAdmin /\ last.wasMember
  /\ last.user \notin admins[last.group] \cup members[last.group]
  /\ members[last.group] # {}
  /\ admins[last.group] \subseteq members[last.group]

\* C14: register on a key not yet registered, with a model extending
\* BaseUserGroup, stores a configuration with that slug and model, and get on
\* that key, through any instance, then returns it; register on a registered
\* key raises ConfigurationAlreadyRegistered and register with another kind of
\* model raises an error, both leaving every stored configuration as it was;
\* get on a key not registered raises ConfigurationNotRegistered; all
\* GroupOptions instances read the same mapping.
C14_RegisterOnce ==
  [][/\ \A i, j \in DOMAIN self_dict : ConfigurationsOf(i) = ConfigurationsOf(j)
     /\ \A i \in DOMAIN self_dict, key \in RegKeys :
          /\ \A model \in Models :
               Call(register(i, key, model)) =>
                 /\ (ConfigurationsOf(i)[key] = Unregistered /\ model \in GroupModels)
                      => /\ returned'.raised = ""
                         /\ \A j \in DOMAIN self_dict :
                              /\ ConfigurationsOf(j)'[key] = [slug |-> key, model |-> model]
                              /\ (get(j, key).returned.raised)' = ""
                              /\ (get(j, key).returned.value)'
                                   = [slug |-> key, model |-> model]
                              /\ \A other \in RegKeys \ {key} :
                                   ConfigurationsOf(j)'[other] = ConfigurationsOf(j)[other]
                 /\ ConfigurationsOf(i)[key] # Unregistered
                      => /\ returned'.raised = "ConfigurationAlreadyRegistered"
                         /\ dicts' = dicts
                 /\ model \notin GroupModels
                      => /\ returned'.raised # ""
                         /\ dicts' = dicts
          /\ Call(get(i, key)) =>
               /\ dicts' = dicts
               /\ ConfigurationsOf(i)[key] = Unregistered
                    => returned'.raised = "ConfigurationNotRegistered"
               /\ ConfigurationsOf(i)[key] # Unregistered
                    => /\ returned'.raised = ""
                       /\ returned'.value = ConfigurationsOf(i)[key]]_vars

\* C14 witness: with both keys registered, a second instance asked to
\* register another model under a stored key and was refused.
C14_Witness ==
  /\ returned.call = "register"
  /\ returned.raised = "ConfigurationAlreadyRegistered"
  /\ returned.via # 1
  /\ \A key \in RegKeys : ConfigurationsOf(1)[key] # Unregistered
  /\ ConfigurationsOf(returned.via)[returned.key].model # returned.model
  /\ returned.model \in GroupModels

\* C18, as claimed: while users leave a group, in requests that may run
\* together, no step takes the admins of a stored group from non-empty to
\* empty.
C18_AsClaimed ==
  [][\A g \in GroupIds :
       (g \in groups /\ admins[g] # {}) => admins'[g] # {}]_vars

\* C19, as claimed: in every reachable state, requests in progress together
\* included, a user has at most one application to a group.
C19_AsClaimed ==
  \A u \in Users, g \in GroupIds : Cardinality(ApplicationsOf(u, g)) <= 1

\* C20: remove_member writes in two steps.  The first takes the user out of
\* admins and leaves members as they were, so a member it was applied to is
\* a member without admin rights until the second step; a request that stops
\* writes nothing more and takes nothing back; the second step takes the user
\* out of members and leaves admins as they were, so admin rights granted in
\* between survive it.
C20_RemoveMemberTwoSteps ==
  [][\A p \in Procs :
       (procs'[p] # procs[p] /\ procs[p].op = "remove_member") =>
         LET g == procs[p].group
             u == procs[p].target
         IN /\ RemoveAdminStep(p) =>
                 /\ u \notin admins'[g]
                 /\ members' = members
            /\ RemoveMembersStep(p) =>
                 /\ u \notin members'[g]
                 /\ admins' = admins
            /\ Stop(p) => UNCHANGED db]_vars

\* C20 witness: a remove_member request has answered its redirect and an
\* add_admin for the same user, served between its two steps, has too: the
\* user is an admin of the group and not a member.
C20_Witness ==
  \E p \in Procs :
    /\ procs[p].op = "remove_member"
    /\ procs[p].pc = "done"
    /\ procs[p].resp = "redirect_detail"
    /\ last.op = "add_admin"
    /\ last.resp = "redirect_detail"
    /\ last.user = procs[p].target
    /\ last.group = procs[p].group
    /\ procs[p].target \in admins[procs[p].group]
    /\ procs[p].target \notin members[procs[p].group]

\* The rows two results leave: groups, members, admins and applications.
SameRows(r1, r2) ==
  /\ r1.st.groups = r2.st.groups
  /\ r1.st.members = r2.st.members
  /\ r1.st.admins = r2.st.admins
  /\ r1.st.applications = r2.st.applications

\* C21, as claimed: in every state where a request can be served, a POST by
\* an actor both implementations let through leaves the same groups, members,
\* admins and applications whether it is served by add_admin, revoke_admin,
\* remove_member, approve_application, apply_to_join_group or delete_group of
\* views.py or by its counterpart in options.py.
C21_AsClaimed ==
  last = Idle =>
    \A a \in Users, g \in groups :
      /\ SameRows(views_apply_to_join_group(a, g), apply_to_join_group(a, g, "POST"))
      /\ (has_permission(a, g) /\ group_admin_required(a, g)) =>
           /\ SameRows(views_delete_group(a, g), delete_group(a, g, "POST"))
           /\ \A u \in UserIds :
                /\ SameRows(views_add_admin(a, g, u), add_admin(a, g, u, "POST"))
                /\ SameRows(views_revoke_admin(a, g, u), revoke_admin(a, g, u, "POST"))
                /\ SameRows(views_remove_member(a, g, u), remove_member(a, g, u, "POST"))
           /\ \A appid \in AppIds :
                SameRows(views_approve_application(a, g, appid),
                         approve_application(a, g, appid, "POST"))

\* C22, as claimed: approve_application and ignore_application of the
\* configuration object, asked on group g about an application made to another
\* group, write nothing, whoever asks and whatever the method: the application
\* stays stored and its applicant is not added to the members of g.
C22_AsClaimed ==
  [][last'.op \in {"approve_application", "ignore_application"} =>
     \A a \in Users, g \in GroupIds, appid \in AppIds, m \in Methods :
       ( /\ g \in groups
         /\ AppRows(appid) # {}
         /\ AppOf(appid).group # g
         /\ \/ Handle(approve_application(a, g, appid, m))
            \/ Handle(ignore_application(a, g, appid, m)) )
       => /\ applications' = applications
          /\ members' = members]_vars

\* C23, as claimed: validate_email_invitation asked on group g with a key
\* makes the user a member of g only when an invitation stored with that key
\* was issued for g, and every invitation it deletes was issued for g.
C23_AsClaimed ==
  [][last'.op = "validate_email_invitation" =>
     \A u \in Users, g \in GroupIds, k \in Keys :
       (g \in groups /\ Handle(validate_email_invitation(u, g, k)))
       => /\ (u \notin members[g] /\ u \in members'[g])
               => \E iv \in InvitationsWith(k) : iv.group = g
          /\ \A iv \in invitations \ invitations' : iv.group = g]_vars

\* What a membership view asked on (g, u) must leave alone: every other
\* user's place in g, every other group, the applications and the invitations.
FrameOf(g, u) ==
  /\ \A v \in Users \ {u} :
       /\ v \in members'[g] <=> v \in members[g]
       /\ v \in admins'[g] <=> v \in admins[g]
  /\ \A h \in GroupIds \ {g} : members'[h] = members[h] /\ admins'[h] = admins[h]
  /\ applications' = applications
  /\ invitations' = invitations
  /\ UNCHANGED <<groups, creator>>

\* C24: add_admin, revoke_admin, remove_member and leave_group, of options.py
\* and of views.py, asked on (g, u) by any actor with any method and whatever
\* they answer, leave the member and admin status of every user other than u
\* in g as it was, leave the members and admins of every other group as they
\* were, and leave every application and invitation stored (leave_group acts
\* on the requesting user).
C24_MembershipFrame ==
  [][\A g \in GroupIds, u \in Users :
       (g \in groups /\ last'.user = u /\ last'.group = g) =>
         /\ last'.op \in {"add_admin", "revoke_admin", "remove_member"} =>
              \A a \in Users, m \in Methods :
                ( \/ Handle(add_admin(a, g, u, m))
                  \/ Handle(revoke_admin(a, g, u, m))
                  \/ Handle(remove_member(a, g, u, m)) ) => FrameOf(g, u)
         /\ last'.op \in {"views.add_admin", "views.revoke_admin",
                          "views.remove_member"} =>
              \A a \in Users :
                ( \/ Handle(views_add_admin(a, g, u))
                  \/ Handle(views_revoke_admin(a, g, u))
                  \/ Handle(views_remove_member(a, g, u)) ) => FrameOf(g, u)
         /\ last'.op = "leave_group" =>
              \A m \in Methods : Handle(leave_group(u, g, m)) => FrameOf(g, u)
         /\ last'.op = "views.leave_group" =>
              \A resolved \in BOOLEAN :
                Handle(views_leave_group(u, g, resolved)) => FrameOf(g, u)]_vars

\* C24 witness: remove_member took a member out of a group that keeps another
\* member, while a second group has members and an application and an
\* invitation are stored.
C24_Witness ==
  /\ last.op = "remove_member"
  /\ last.resp = "redirect_detail"
  /\ last.wasMember
  /\ last.user \notin members[last.group]
  /\ members[last.group] # {}
  /\ \E h \in groups \ {last.group} : members[h] # {}
  /\ applications # {}
  /\ invitations # {}

\* C25: remove_member of the configuration object, asked by a permitted
\* actor about themselves, writes nothing and answers the redirect to
\* leave_group, whatever the method; a sole admin is therefore still an admin
\* (and a member, if they were one) afterwards, and the leave_group request
\* the redirect leads to writes nothing for them either.
C25_SelfRemovalRedirects ==
  [][last'.op = "remove_member" =>
     \A a \in Users, g \in GroupIds, m \in Methods :
       ( /\ g \in groups
         /\ has_permission(a, g)
         /\ last'.user = a /\ last'.group = g
         /\ Handle(remove_member(a, g, a, m)) )
       => /\ UNCHANGED db
          /\ last'.resp = "redirect_leave"
          /\ admins[g] = {a} =>
               /\ admins'[g] = {a}
               /\ a \in members[g] => a \in members'[g]
               /\ \A m2 \in Methods : (leave_group(a, g, m2).st)' = Cur']_vars

\* C25 witness: the only admin of a group with another member posted
\* remove_member about themselves, was sent to leave_group, and is still the
\* only admin and a member.
C25_Witness ==
  /\ last.op = "remove_member"
  /\ last.resp = "redirect_leave"
  /\ last.wasAdmin /\ last.wasMember
  /\ admins[last.group] = {last.user}
  /\ last.user \in members[last.group]
  /\ Cardinality(members[last.group]) > 1

====
